---- MODULE Spec2Model ----
(***************************************************************************)
(* ESG Quantitative Screening Dashboard (src/app.py, src/config.py,        *)
(* src/report_generator.py).                                               *)
(*                                                                         *)
(* The dashboard is a Streamlit script: every widget event (a file added   *)
(* to an uploader, a category selected) reruns the whole script on the     *)
(* widgets' current values.  The state is the widgets' values, the session *)
(* state, and the tables and messages the last rerun produced.             *)
(*                                                                         *)
(* Uploaded tables carry the columns Symbol, Morningstar Category and      *)
(* FI ESG Quant Screen Scoring System (the normalised schema); a missing   *)
(* cell is NaN.  Scores are in tenths (9 is 0.9).  Percentiles are exact   *)
(* fractions <<n, d>> in lowest terms with d > 0; within the bounds used   *)
(* here no comparison against a cut point depends on float rounding.       *)
(***************************************************************************)
EXTENDS Integers, Sequences, FiniteSets, TLC

VARIABLES
    uploaded_files,     \* st.file_uploader "Upload YCharts CSV exports": the files, each a sequence of rows
    previous_files,     \* st.file_uploader "Upload previous quarter CSVs"
    selected_category,  \* st.selectbox "Select Morningstar Category"
    combined_df,        \* the scored universe of the last rerun
    prev_combined,      \* the scored previous-quarter universe of the last rerun
    comparison,         \* the merged quarter-over-quarter table
    alerts,             \* the flagged rows as displayed
    flagged_msg,        \* what the comparison section reports: the st.warning / st.success / st.error
    category_df,        \* the selected category's table with Status
    run,                \* how the last rerun ended: "idle", "ok" or "error" (uncaught exception)
    thresholds,         \* config.PERCENTILE_THRESHOLDS as loaded with the config module
    metric_weights,     \* config.METRIC_WEIGHTS as loaded with the config module
    portfolio_file,     \* st.file_uploader "Upload current ESG model (CSV)"
    session_state,      \* st.session_state['portfolio_df']
    holdings_metric,    \* the "In Screening Universe" metric of the portfolio section
    holdings_status,    \* the "Current Holdings ESG Status" table
    report              \* the compliance report generated by the last rerun, if any

vars == <<uploaded_files, previous_files, selected_category, combined_df, prev_combined,
          comparison, alerts, flagged_msg, category_df, run,
          thresholds, metric_weights, portfolio_file, session_state, holdings_metric,
          holdings_status, report>>

----------------------------------------------------------------------------
(* Bounds and input domains *)

\* rows of one uploaded universe (scoring runs)
MaxRows == 3
\* rows of each universe in a quarter-over-quarter comparison
MaxDriftRows == 2

SymbolOrder == <<"A", "B", "C", "D", "E">>
Symbols == {SymbolOrder[i] : i \in 1..Len(SymbolOrder)}

CategoryOrder == <<"X", "Y">>
Categories == {CategoryOrder[i] : i \in 1..Len(CategoryOrder)}

ScoreValues == {1, 5, 9}

NaN == <<>>
IsNaN(x) == x = <<>>
Some(v) == <<v>>

\* the category and score cells of one row of an uploaded CSV; a row without
\* a category is taken with one score, as it leaves the table before any
\* score is read
FundCells ==
    [Category : {Some(c) : c \in Categories}, Score : {Some(s) : s \in ScoreValues} \cup {NaN}]
    \cup {[Category |-> NaN, Score |-> Some(5)]}

FundRow(sym, cell) == [Symbol |-> sym, Category |-> cell.Category, Score |-> cell.Score]

----------------------------------------------------------------------------
(* Exact arithmetic on the percentile columns *)

Abs(n) == IF n < 0 THEN -n ELSE n

RECURSIVE GCD(_, _)
GCD(a, b) == IF b = 0 THEN a ELSE GCD(b, a % b)

Frac(n, d) == LET g == GCD(Abs(n), d) IN <<n \div g, d \div g>>

\* float comparisons: any comparison with NaN is False
Leq(x, k) == ~IsNaN(x) /\ x[1] <= k * x[2]
Gt(x, k) == ~IsNaN(x) /\ x[1] > k * x[2]
FracLeq(x, y) == x[1] * y[2] <= y[1] * x[2]

\* float subtraction: NaN if either side is NaN
Sub(x, y) ==
    IF IsNaN(x) \/ IsNaN(y) THEN NaN
    ELSE Frac(x[1] * y[2] - y[1] * x[2], x[2] * y[2])

RECURSIVE SumSet(_)
SumSet(S) == IF S = {} THEN 0 ELSE LET x == CHOOSE x \in S : TRUE IN x + SumSet(S \ {x})

----------------------------------------------------------------------------
(* Loading and scoring: app.py 59-90 *)

\* pd.concat(dfs, ignore_index=True)
RECURSIVE Concat(_)
Concat(dfs) == IF dfs = <<>> THEN <<>> ELSE Head(dfs) \o Concat(Tail(dfs))

RECURSIVE InsertDesc(_, _)
InsertDesc(v, s) ==
    IF s = <<>> THEN <<v>>
    ELSE IF v >= Head(s) THEN <<v>> \o s
    ELSE <<Head(s)>> \o InsertDesc(v, Tail(s))

\* the non-NaN values in descending order (ascending=False, na_option='keep')
RECURSIVE SortDesc(_)
SortDesc(series) ==
    IF series = <<>> THEN <<>>
    ELSE IF IsNaN(Head(series)) THEN SortDesc(Tail(series))
    ELSE InsertDesc(Head(series)[1], SortDesc(Tail(series)))

\* rank(pct=True) dividing by the length of the series, NaN included
RankPct_CountAll(series) ==
    LET sorted == SortDesc(series)
        positions(v) == {k \in 1..Len(sorted) : sorted[k] = v}
    IN [i \in 1..Len(series) |->
            IF IsNaN(series[i]) THEN NaN
            ELSE Frac(100 * SumSet(positions(series[i][1])),
                      Cardinality(positions(series[i][1])) * Len(series))]

\* rank(method='first'): ties ranked in the order they appear
RankPct_First(series) ==
    LET count == Len(SortDesc(series))
        before(i) == {j \in 1..Len(series) :
                        /\ ~IsNaN(series[j])
                        /\ \/ series[j][1] > series[i][1]
                           \/ series[j][1] = series[i][1] /\ j < i}
    IN [i \in 1..Len(series) |->
            IF IsNaN(series[i]) THEN NaN
            ELSE Frac(100 * (Cardinality(before(i)) + 1), count)]

\* rank(pct=True) with the default ascending=True
RankPct_Ascending(series) ==
    LET sorted == SortDesc(series)
        count == Len(sorted)
        positions(v) == {k \in 1..count : sorted[count + 1 - k] = v}
    IN [i \in 1..Len(series) |->
            IF IsNaN(series[i]) THEN NaN
            ELSE Frac(100 * SumSet(positions(series[i][1])),
                      Cardinality(positions(series[i][1])) * count)]

\* Series.rank(ascending=False, pct=True) * 100, method='average':
\* a value's rank is the mean of the positions its ties occupy in the
\* descending order, divided by the count of non-NaN values; NaN stays NaN
RankPct(series) ==
    LET sorted == SortDesc(series)
        count == Len(sorted)
        positions(v) == {k \in 1..count : sorted[k] = v}
    IN [i \in 1..Len(series) |->
            IF IsNaN(series[i]) THEN NaN
            ELSE Frac(100 * SumSet(positions(series[i][1])),
                      Cardinality(positions(series[i][1])) * count)]

WithPercentile(row, p) ==
    [Symbol |-> row.Symbol, Category |-> row.Category, Score |-> row.Score, Percentile |-> p]

calculate_category_percentile(group) ==
    LET pct == RankPct([i \in 1..Len(group) |-> group[i].Score])
    IN [i \in 1..Len(group) |-> WithPercentile(group[i], pct[i])]

\* groupby('Morningstar Category', group_keys=False).apply(f): rows whose key
\* is NaN belong to no group and are dropped; the like-indexed results come
\* back in the original row order
GroupByApply(df) ==
    LET kept == SelectSeq(df, LAMBDA r : ~IsNaN(r.Category))
        keys == {kept[i].Category : i \in 1..Len(kept)}
        applied == [c \in keys |->
                        calculate_category_percentile(SelectSeq(kept, LAMBDA r : r.Category = c))]
        posInGroup(i) == Cardinality({j \in 1..i : kept[j].Category = kept[i].Category})
    IN [i \in 1..Len(kept) |-> applied[kept[i].Category][posInGroup(i)]]

\* with no group at all the result has the input's columns only, and reading
\* 'Category_Percentile' raises KeyError
ScoringFails(df) == \A i \in 1..Len(df) : IsNaN(df[i].Category)

----------------------------------------------------------------------------
(* Tier classification and category analysis: app.py 230-267 *)

\* the weights of config.py in whole percent (0.20 is 20), keyed by metric
\* name, with the metrics listed under each of the file's two headings
EnvironmentalMetrics ==
    {"MSCI ESG Environmental Score",
     "ESG Score Environmental Weight (%)",
     "Fund Weighted Average Carbon Intensity",
     "Financed Carbon Emissions (Carbon Emissions / USD Million Invested)",
     "Fossil Fuels Reserve (%)"}

QualityGovernanceMetrics ==
    {"MSCI ESG Score",
     "Fund ESG Leaders (%)",
     "MSCI Fund ESG Trend Positive (%)",
     "Fund ESG Laggards (%)",
     "Controversial Weapons Involvement (%)",
     "MSCI ESG Governance Score"}

\* the dict without its last entry
METRIC_WEIGHTS_Truncated ==
    <<[Metric |-> "MSCI ESG Environmental Score", Weight |-> 20],
      [Metric |-> "ESG Score Environmental Weight (%)", Weight |-> 15],
      [Metric |-> "Fund Weighted Average Carbon Intensity", Weight |-> 20],
      [Metric |-> "Financed Carbon Emissions (Carbon Emissions / USD Million Invested)",
       Weight |-> 10],
      [Metric |-> "Fossil Fuels Reserve (%)", Weight |-> 15],
      [Metric |-> "MSCI ESG Score", Weight |-> 5],
      [Metric |-> "Fund ESG Leaders (%)", Weight |-> 5],
      [Metric |-> "MSCI Fund ESG Trend Positive (%)", Weight |-> 5],
      [Metric |-> "Fund ESG Laggards (%)", Weight |-> 3],
      [Metric |-> "Controversial Weapons Involvement (%)", Weight |-> 1]>>

METRIC_WEIGHTS ==
    <<[Metric |-> "MSCI ESG Environmental Score", Weight |-> 20],
      [Metric |-> "ESG Score Environmental Weight (%)", Weight |-> 15],
      [Metric |-> "Fund Weighted Average Carbon Intensity", Weight |-> 20],
      [Metric |-> "Financed Carbon Emissions (Carbon Emissions / USD Million Invested)",
       Weight |-> 10],
      [Metric |-> "Fossil Fuels Reserve (%)", Weight |-> 15],
      [Metric |-> "MSCI ESG Score", Weight |-> 5],
      [Metric |-> "Fund ESG Leaders (%)", Weight |-> 5],
      [Metric |-> "MSCI Fund ESG Trend Positive (%)", Weight |-> 5],
      [Metric |-> "Fund ESG Laggards (%)", Weight |-> 3],
      [Metric |-> "Controversial Weapons Involvement (%)", Weight |-> 1],
      [Metric |-> "MSCI ESG Governance Score", Weight |-> 1]>>

PERCENTILE_THRESHOLDS == [elite |-> 25, review |-> 50, replace |-> 100]

\* the keys of the dict in the order config.py writes them
TierOrder == <<"elite", "review", "replace">>

\* a threshold dict: its keys in order and the bound of each key
ThresholdDict(order, bound) == [order |-> order, bound |-> bound]

ShippedThresholds == ThresholdDict(TierOrder, PERCENTILE_THRESHOLDS)

HasKey(dict, key) == \E i \in 1..Len(dict.order) : dict.order[i] = key

\* the outcome of the Status lambda when a key it reads is not in the dict
KeyError == "KeyError"

Lt(x, k) == ~IsNaN(x) /\ x[1] < k * x[2]

\* the upper bounds taken exclusively
Status_Exclusive(x) ==
    IF ~HasKey(thresholds, "elite") THEN KeyError
    ELSE IF Lt(x, thresholds.bound["elite"]) THEN "Elite"
    ELSE IF ~HasKey(thresholds, "review") THEN KeyError
    ELSE IF Lt(x, thresholds.bound["review"]) THEN "Review"
    ELSE "Replace"

\* lambda x: 'Elite' if x <= config.PERCENTILE_THRESHOLDS['elite'] else
\*           'Review' if x <= config.PERCENTILE_THRESHOLDS['review'] else 'Replace'
\* (app.py 153-155 and 242-244): the keys 'elite' and 'review' are looked up
\* as the conditions are evaluated, the labels are literals
Status(x) ==
    IF ~HasKey(thresholds, "elite") THEN KeyError
    ELSE IF Leq(x, thresholds.bound["elite"]) THEN "Elite"
    ELSE IF ~HasKey(thresholds, "review") THEN KeyError
    ELSE IF Leq(x, thresholds.bound["review"]) THEN "Review"
    ELSE "Replace"

\* Series.apply(lambda) raises when the lambda raises on one of its values
StatusRaises(df) == \E i \in 1..Len(df) : Status(df[i].Percentile) = KeyError

\* sort_values(col): ascending, NaN last; ties keep their order
RECURSIVE InsertByPercentile(_, _)
InsertByPercentile(r, s) ==
    IF s = <<>> THEN <<r>>
    ELSE IF ~IsNaN(r.Percentile)
            /\ (IsNaN(Head(s).Percentile) \/ ~FracLeq(Head(s).Percentile, r.Percentile))
         THEN <<r>> \o s
    ELSE <<Head(s)>> \o InsertByPercentile(r, Tail(s))

RECURSIVE SortByPercentile(_)
SortByPercentile(df) ==
    IF df = <<>> THEN <<>>
    ELSE InsertByPercentile(Head(df), SortByPercentile(Tail(df)))

CategoriesOf(df) == {df[i].Category[1] : i \in {j \in 1..Len(df) : ~IsNaN(df[j].Category)}}

\* sorted(categories)
SortedCategories(df) ==
    SelectSeq(CategoryOrder, LAMBDA c : c \in CategoriesOf(df))

WithStatus(row) ==
    [Symbol |-> row.Symbol, Category |-> row.Category, Score |-> row.Score,
     Percentile |-> row.Percentile, Status |-> Status(row.Percentile)]

CategoryAnalysis(df, sel) ==
    LET rows == SortByPercentile(SelectSeq(df, LAMBDA r : r.Category = Some(sel)))
    IN [i \in 1..Len(rows) |-> WithStatus(rows[i])]

----------------------------------------------------------------------------
(* Portfolio comparison: app.py 92-166.  A portfolio CSV is its holding    *)
(* column, a sequence of ticker cells.                                     *)

None == [kind |-> "none", Holding |-> <<>>]

\* pd.read_csv(portfolio_file) of a readable file
PortfolioCsv(cells) == [kind |-> "csv", Holding |-> cells]

\* a file pd.read_csv raises on
Unreadable == [kind |-> "unreadable", Holding |-> <<>>]

\* lines 93-99: the session state is written only when a file is supplied
StorePortfolio(pfile, session) ==
    IF pfile.kind = "none" THEN session
    ELSE IF pfile.kind = "csv" THEN pfile
    ELSE None

\* portfolio_clean[holding_col].dropna().unique()
current_tickers(portfolio_df) ==
    {portfolio_df.Holding[i][1] :
        i \in {j \in 1..Len(portfolio_df.Holding) : ~IsNaN(portfolio_df.Holding[j])}}

\* combined_df['Symbol'].unique()
screening_tickers(df) == {df[i].Symbol : i \in 1..Len(df)}

matches(portfolio_df, df) == current_tickers(portfolio_df) \cap screening_tickers(df)

\* holdings_cols and the Status column
HoldingRow(row) ==
    [Symbol |-> row.Symbol, Category |-> row.Category,
     Percentile |-> row.Percentile, Status |-> Status(row.Percentile)]

\* the rows in the order of the universe, not sorted
HoldingsStatus_Unsorted(df, portfolio_df) ==
    LET rows == SelectSeq(df, LAMBDA r : r.Symbol \in current_tickers(portfolio_df))
    IN [i \in 1..Len(rows) |-> HoldingRow(rows[i])]

\* lines 149-157: combined_df[combined_df['Symbol'].isin(current_tickers)]
\* with Status, sorted by percentile
HoldingsStatus(df, portfolio_df) ==
    LET rows == SortByPercentile(
                    SelectSeq(df, LAMBDA r : r.Symbol \in current_tickers(portfolio_df)))
    IN [i \in 1..Len(rows) |-> HoldingRow(rows[i])]

\* what the section shows: nothing, the two metrics, or st.error
NoMetric == [kind |-> "none", matches |-> 0, total |-> 0]
ErrorMetric == [kind |-> "error", matches |-> 0, total |-> 0]

\* col2.metric("In Screening Universe", f"{len(matches)}/{len(current_tickers)}")
InScreeningUniverse(portfolio_df, df) ==
    [kind |-> "metric",
     matches |-> Cardinality(matches(portfolio_df, df)),
     total |-> Cardinality(current_tickers(portfolio_df))]

----------------------------------------------------------------------------
(* Quarter-over-quarter comparison: app.py 168-227 *)

Geq(x, k) == ~IsNaN(x) /\ x[1] >= k * x[2]

\* the cut points taken inclusively
Alert_Inclusive(x) ==
    IF Geq(x, 25) THEN "Deteriorated"
    ELSE IF Geq(x, 15) THEN "Watchlist"
    ELSE IF Geq(x, 5) THEN "Minor Change"
    ELSE "Stable/Improved"

\* each level decided by a failed "at most" test
Alert_NegatedTests(x) ==
    IF ~Leq(x, 25) THEN "Deteriorated"
    ELSE IF ~Leq(x, 15) THEN "Watchlist"
    ELSE IF ~Leq(x, 5) THEN "Minor Change"
    ELSE "Stable/Improved"

Alert(x) ==
    IF Gt(x, 25) THEN "Deteriorated"
    ELSE IF Gt(x, 15) THEN "Watchlist"
    ELSE IF Gt(x, 5) THEN "Minor Change"
    ELSE "Stable/Improved"

\* the subtraction the other way round
Percentile_Change_Reversed(cur, prev) == Sub(prev, cur)

Percentile_Change(cur, prev) == Sub(cur, prev)

ComparisonRow(l, r) ==
    LET change == Percentile_Change(l.Percentile, r.Percentile)
    IN [Symbol |-> l.Symbol, Category |-> l.Category, Score |-> l.Score,
        Percentile_current |-> l.Percentile,
        Percentile_previous |-> r.Percentile,
        Percentile_Change |-> change,
        Alert |-> Alert(change)]

\* combined_df.merge(prev_combined[['Symbol', percentile]], on='Symbol', how='inner'):
\* one row per pair of a left and a right row with the same Symbol, in the
\* order of the left rows, then of the right rows
RECURSIVE Merge(_, _)
Merge(left, right) ==
    IF left = <<>> THEN <<>>
    ELSE LET l == Head(left)
             paired == SelectSeq(right, LAMBDA r : r.Symbol = l.Symbol)
         IN [i \in 1..Len(paired) |-> ComparisonRow(l, paired[i])] \o Merge(Tail(left), right)

\* how='left': a left row without a match is kept, its previous percentile NaN
RECURSIVE MergeLeft(_, _)
MergeLeft(left, right) ==
    IF left = <<>> THEN <<>>
    ELSE LET l == Head(left)
             paired == SelectSeq(right, LAMBDA r : r.Symbol = l.Symbol)
         IN (IF paired = <<>>
             THEN <<ComparisonRow(l, [Symbol |-> l.Symbol, Percentile |-> NaN])>>
             ELSE [i \in 1..Len(paired) |-> ComparisonRow(l, paired[i])])
            \o MergeLeft(Tail(left), right)

Comparison_LeftJoin(cur, prev) == MergeLeft(cur, prev)

Comparison(cur, prev) == Merge(cur, prev)

Flagged(cmp) == SelectSeq(cmp, LAMBDA r : r.Alert \in {"Deteriorated", "Watchlist"})

\* sort_values('Percentile_Change', ascending=False)
RECURSIVE InsertByChangeDesc(_, _)
InsertByChangeDesc(r, s) ==
    IF s = <<>> THEN <<r>>
    ELSE IF ~IsNaN(r.Percentile_Change)
            /\ (IsNaN(Head(s).Percentile_Change)
                \/ ~FracLeq(r.Percentile_Change, Head(s).Percentile_Change))
         THEN <<r>> \o s
    ELSE <<Head(s)>> \o InsertByChangeDesc(r, Tail(s))

\* the flagged rows left in the order of the merge
SortByChangeDesc_Unsorted(df) == df

RECURSIVE SortByChangeDesc(_)
SortByChangeDesc(df) ==
    IF df = <<>> THEN <<>>
    ELSE InsertByChangeDesc(Head(df), SortByChangeDesc(Tail(df)))

\* the comparison section's message: st.warning with the number of flagged
\* funds, st.success when none is flagged, st.error when the section raised
FlaggedMessage(flagged) ==
    IF Len(flagged) > 0 THEN [kind |-> "warning", n |-> Len(flagged)]
    ELSE [kind |-> "success", n |-> 0]

NoMessage == [kind |-> "none", n |-> 0]
ErrorMessage == [kind |-> "error", n |-> 0]

----------------------------------------------------------------------------
(* Compliance report: report_generator.py 30-190, called from app.py       *)
(* 286-314.  The report is modelled by the numbers and table rows it       *)
(* prints; tickers and labels are shorter than the widths they are cut to. *)

\* the dashboard's labels stand for the strings with their emoji, which
\* clean_status_for_pdf strips before it maps them
clean_status_for_pdf(status) ==
    IF status = "Elite" THEN "Elite"
    ELSE IF status = "Review" THEN "Review Required"
    ELSE status

\* f"{percentile:.1f}": the value in tenths, rounded half to even; NaN prints "nan"
FormatTenths(p) ==
    IF IsNaN(p) THEN NaN
    ELSE LET q == (10 * p[1]) \div p[2]
             r == (10 * p[1]) % p[2]
         IN IF 2 * r > p[2] THEN <<q + 1>>
            ELSE IF 2 * r = p[2] THEN <<q + (q % 2)>>
            ELSE <<q>>

\* report_generator.py 134-141
action(percentile) ==
    IF Leq(percentile, 25) THEN "Keep (Elite)"
    ELSE IF Leq(percentile, 37) THEN "Keep (Qualified)"
    ELSE IF Leq(percentile, 74) THEN "Monitor"
    ELSE "Consider Replacement"

\* a row of 'Current Portfolio Holdings in This Category'
ReportHolding(row) ==
    [Ticker |-> row.Symbol,
     Percentile |-> FormatTenths(row.Percentile),
     Status |-> clean_status_for_pdf(row.Status),
     Action |-> action(row.Percentile)]

\* a row of 'Top 10 Available Funds in Universe'
ReportTop(row, tickers) ==
    [Ticker |-> row.Symbol,
     Percentile |-> FormatTenths(row.Percentile),
     Status |-> clean_status_for_pdf(row.Status),
     InPortfolio |-> row.Symbol \in tickers]

\* the two weight lists of the report's methodology page, each printed as
\* "<metric> (<weight>)" under its section title
metrics ==
    [title |-> "Environmental Metrics (70% Total Weight)",
     rows |-> <<[Metric |-> "MSCI ESG Environmental Score", Weight |-> "20%"],
                [Metric |-> "ESG Score Environmental Weight", Weight |-> "15%"],
                [Metric |-> "Fund WACI (Weighted Average Carbon Intensity)", Weight |-> "20%"],
                [Metric |-> "Financed Carbon Emissions", Weight |-> "10%"],
                [Metric |-> "Fossil Fuel Reserves Exposure", Weight |-> "15%"]>>]

quality_metrics ==
    [title |-> "ESG Quality & Governance Metrics (30% Total Weight)",
     rows |-> <<[Metric |-> "MSCI ESG Score", Weight |-> "5%"],
                [Metric |-> "Fund ESG Leaders %", Weight |-> "5%"],
                [Metric |-> "MSCI Fund ESG Trend Positive %", Weight |-> "5%"],
                [Metric |-> "Fund ESG Laggards %", Weight |-> "3%"],
                [Metric |-> "Controversial Weapons Involvement", Weight |-> "1%"],
                [Metric |-> "MSCI ESG Governance Score", Weight |-> "1%"]>>]

NoTable == [title |-> "", rows |-> <<>>]

NoReport ==
    [generated |-> FALSE, portfolio_df |-> None, total |-> 0, elite |-> 0, qualified |-> 0,
     holdings |-> <<>>, top |-> <<>>, metrics |-> NoTable, quality_metrics |-> NoTable]

generate_compliance_report(cat_df, portfolio_df) ==
    LET tickers == IF portfolio_df = None THEN {} ELSE current_tickers(portfolio_df)
        holdings_in_category == SelectSeq(cat_df, LAMBDA r : r.Symbol \in tickers)
        head == SubSeq(cat_df, 1, IF Len(cat_df) < 10 THEN Len(cat_df) ELSE 10)
        cleaned == [i \in 1..Len(cat_df) |-> clean_status_for_pdf(cat_df[i].Status)]
    IN [generated |-> TRUE,
        portfolio_df |-> portfolio_df,
        total |-> Len(cat_df),
        elite |-> Cardinality({i \in 1..Len(cat_df) : cleaned[i] = "Elite"}),
        qualified |-> Cardinality({i \in 1..Len(cat_df) : cleaned[i] = "Qualified"}),
        holdings |-> [i \in 1..Len(holdings_in_category) |->
                        ReportHolding(holdings_in_category[i])],
        top |-> [i \in 1..Len(head) |-> ReportTop(head[i], tickers)],
        metrics |-> metrics,
        quality_metrics |-> quality_metrics]

----------------------------------------------------------------------------
(* The methodology tab, drawn by every rerun: app.py 485-562 *)

env_metrics ==
    [title |-> "Environmental Metrics (70% Total Weight)",
     rows |-> <<[Metric |-> "MSCI ESG Environmental Score", Weight |-> "20%"],
                [Metric |-> "ESG Score Environmental Weight", Weight |-> "15%"],
                [Metric |-> "Fund WACI (Carbon Intensity)", Weight |-> "20%"],
                [Metric |-> "Financed Carbon Emissions", Weight |-> "10%"],
                [Metric |-> "Fossil Fuel Reserves", Weight |-> "15%"]>>]

qual_metrics ==
    [title |-> "ESG Quality & Governance Metrics (30% Total Weight)",
     rows |-> <<[Metric |-> "MSCI ESG Score", Weight |-> "5%"],
                [Metric |-> "Fund ESG Leaders %", Weight |-> "5%"],
                [Metric |-> "MSCI ESG Trend Positive %", Weight |-> "5%"],
                [Metric |-> "Fund ESG Laggards %", Weight |-> "3%"],
                [Metric |-> "Controversial Weapons", Weight |-> "1%"],
                [Metric |-> "MSCI ESG Governance Score", Weight |-> "1%"]>>]

----------------------------------------------------------------------------
(* One rerun of the script on the widgets' values: app.py 58-327 *)

NoSelection == "none"

\* st.selectbox(sorted(categories)): the choice is kept while the options are
\* the same as in the last rerun that showed the widget, else the first option
Selectbox(options, choice) ==
    IF run = "ok" /\ options = SortedCategories(combined_df) /\ choice # NoSelection
    THEN choice ELSE options[1]

Script(files, prevs, choice) ==
    IF files = <<>> THEN
        \* st.info("Upload YCharts CSV exports to begin")
        /\ run' = "idle"
        /\ combined_df' = <<>>
        /\ prev_combined' = <<>>
        /\ comparison' = <<>>
        /\ alerts' = <<>>
        /\ flagged_msg' = NoMessage
        /\ category_df' = <<>>
        /\ selected_category' = NoSelection
    ELSE IF ScoringFails(Concat(files)) THEN
        \* KeyError 'Category_Percentile' at line 85, outside any try
        /\ run' = "error"
        /\ combined_df' = <<>>
        /\ prev_combined' = <<>>
        /\ comparison' = <<>>
        /\ alerts' = <<>>
        /\ flagged_msg' = NoMessage
        /\ category_df' = <<>>
        /\ selected_category' = NoSelection
    ELSE
        LET scored == GroupByApply(Concat(files))
            prevOk == prevs # <<>> /\ ~ScoringFails(Concat(prevs))
            prevScored == IF prevOk THEN GroupByApply(Concat(prevs)) ELSE <<>>
            cmp == IF prevOk THEN Comparison(scored, prevScored) ELSE <<>>
            sel == Selectbox(SortedCategories(scored), choice)
            \* a KeyError of the Status lambda at line 241 is outside any try
            raised == StatusRaises(SelectSeq(scored, LAMBDA r : r.Category = Some(sel)))
        IN /\ run' = IF raised THEN "error" ELSE "ok"
           /\ combined_df' = scored
           /\ prev_combined' = prevScored
           /\ comparison' = cmp
           /\ alerts' = SortByChangeDesc(Flagged(cmp))
           /\ flagged_msg' = IF prevs = <<>> THEN NoMessage
                             ELSE IF ~prevOk THEN ErrorMessage
                             ELSE FlaggedMessage(Flagged(cmp))
           /\ selected_category' = sel
           /\ category_df' = IF raised THEN <<>> ELSE CategoryAnalysis(scored, sel)

\* the portfolio section (lines 92-166) and the report button (lines 286-314)
\* of the same rerun; clicked is the value of st.button in this rerun
Portfolio(files, pfile, clicked) ==
    IF files = <<>> \/ ScoringFails(Concat(files)) THEN
        \* neither section is reached
        /\ session_state' = session_state
        /\ holdings_metric' = NoMetric
        /\ holdings_status' = <<>>
        /\ report' = NoReport
    ELSE
        LET portfolio_df == StorePortfolio(pfile, session_state)
            found == pfile.kind = "csv" /\ matches(portfolio_df, combined_df') # {}
            \* a KeyError of the Status lambda at line 152 is caught at line 163
            raised == found /\ StatusRaises(SelectSeq(combined_df',
                                    LAMBDA r : r.Symbol \in current_tickers(portfolio_df)))
            \* lines 289-299: the session state first; the fallback reads a
            \* file that line 95 could not read
            portfolio_data == portfolio_df
        IN /\ session_state' = portfolio_df
           /\ holdings_metric' =
                IF pfile.kind = "none" THEN NoMetric
                ELSE IF pfile.kind = "unreadable" THEN ErrorMetric
                ELSE [InScreeningUniverse(portfolio_df, combined_df') EXCEPT
                        !.kind = IF raised THEN "error" ELSE "metric"]
           /\ holdings_status' = IF found /\ ~raised
                                  THEN HoldingsStatus(combined_df', portfolio_df) ELSE <<>>
           /\ report' = IF clicked /\ run' = "ok"
                         THEN generate_compliance_report(category_df', portfolio_data)
                         ELSE NoReport

----------------------------------------------------------------------------
(* Widget events; each reruns the script *)

RowCount(files) == Len(Concat(files))

\* a CSV export added to the universe uploader
UploadFile(f) ==
    /\ uploaded_files' = Append(uploaded_files, f)
    /\ UNCHANGED <<previous_files, portfolio_file, thresholds, metric_weights>>
    /\ Script(uploaded_files', previous_files, selected_category)
    /\ Portfolio(uploaded_files', portfolio_file, FALSE)

\* a CSV export added to the previous-quarter uploader
UploadPrevious(f) ==
    /\ previous_files' = Append(previous_files, f)
    /\ UNCHANGED <<uploaded_files, portfolio_file, thresholds, metric_weights>>
    /\ Script(uploaded_files, previous_files', selected_category)
    /\ Portfolio(uploaded_files, portfolio_file, FALSE)

SelectCategory(c) ==
    /\ run = "ok"
    /\ c \in CategoriesOf(combined_df)
    /\ c # selected_category
    /\ UNCHANGED <<uploaded_files, previous_files, portfolio_file, thresholds, metric_weights>>
    /\ Script(uploaded_files, previous_files, c)
    /\ Portfolio(uploaded_files, portfolio_file, FALSE)

\* a file put into the portfolio uploader (it replaces the one there)
UploadPortfolio(pfile) ==
    /\ portfolio_file' = pfile
    /\ UNCHANGED <<uploaded_files, previous_files, thresholds, metric_weights>>
    /\ Script(uploaded_files, previous_files, selected_category)
    /\ Portfolio(uploaded_files, portfolio_file', FALSE)

\* the file taken out of the portfolio uploader
RemovePortfolio ==
    /\ portfolio_file # None
    /\ portfolio_file' = None
    /\ UNCHANGED <<uploaded_files, previous_files, thresholds, metric_weights>>
    /\ Script(uploaded_files, previous_files, selected_category)
    /\ Portfolio(uploaded_files, portfolio_file', FALSE)

\* st.button("Generate Compliance Report (PDF)"), shown with the category table
GenerateReport ==
    /\ run = "ok"
    /\ UNCHANGED <<uploaded_files, previous_files, portfolio_file, thresholds, metric_weights>>
    /\ Script(uploaded_files, previous_files, selected_category)
    /\ Portfolio(uploaded_files, portfolio_file, TRUE)

Init ==
    /\ uploaded_files = <<>>
    /\ previous_files = <<>>
    /\ selected_category = NoSelection
    /\ combined_df = <<>>
    /\ prev_combined = <<>>
    /\ comparison = <<>>
    /\ alerts = <<>>
    /\ flagged_msg = NoMessage
    /\ category_df = <<>>
    /\ run = "idle"
    /\ thresholds = ShippedThresholds
    /\ metric_weights = METRIC_WEIGHTS
    /\ portfolio_file = None
    /\ session_state = None
    /\ holdings_metric = NoMetric
    /\ holdings_status = <<>>
    /\ report = NoReport

----------------------------------------------------------------------------
(* Scoring runs: universe files only.  The funds of a run have distinct   *)
(* symbols: the k-th fund uploaded is SymbolOrder[k].                      *)

\* an export of the funds not yet uploaded, with the given cells
NewExport(cells) ==
    [k \in 1..Len(cells) |-> FundRow(SymbolOrder[RowCount(uploaded_files) + k], cells[k])]

UploadUniverse ==
    /\ RowCount(uploaded_files) < MaxRows
    /\ \E cell \in FundCells : UploadFile(NewExport(<<cell>>))

ChooseCategory == \E c \in Categories : SelectCategory(c)

NextRank == UploadUniverse \/ ChooseCategory

SpecRank == Init /\ [][NextRank]_vars

----------------------------------------------------------------------------
(* Properties of scoring runs (SpecRank) *)

Input == Concat(uploaded_files)

IsNumeric(x) == ~IsNaN(x)

\* C1: for every category, with N the number of its funds that have a numeric
\* score, each such fund's percentile is (number of peers with a greater
\* score + mean position among its ties) / N * 100, the peers being the
\* numeric-score funds of its own category only
C1_PercentileIsAverageRankOverN ==
    run = "ok" =>
        \A j \in 1..Len(Input) :
            LET f == Input[j]
                peers == {k \in 1..Len(Input) :
                            Input[k].Category = f.Category /\ IsNumeric(Input[k].Score)}
                N == Cardinality(peers)
                g == Cardinality({k \in peers : Input[k].Score[1] > f.Score[1]})
                t == Cardinality({k \in peers : Input[k].Score[1] = f.Score[1]})
            IN (~IsNaN(f.Category) /\ IsNumeric(f.Score)) =>
                   \E i \in 1..Len(combined_df) :
                       /\ combined_df[i].Symbol = f.Symbol
                       /\ IsNumeric(combined_df[i].Percentile)
                       /\ combined_df[i].Percentile[1] * 2 * N
                            = 100 * (2 * g + t + 1) * combined_df[i].Percentile[2]

\* a tie of two funds and a NaN score in one category, another category present
C1_Witness ==
    /\ run = "ok"
    /\ \E i, j, k \in 1..Len(Input) :
          /\ i # j
          /\ Input[i].Category = Input[j].Category /\ ~IsNaN(Input[i].Category)
          /\ IsNumeric(Input[i].Score) /\ Input[i].Score = Input[j].Score
          /\ ~IsNaN(Input[k].Category) /\ Input[k].Category # Input[i].Category
          /\ IsNumeric(Input[k].Score)

ScenarioUniverse ==
    <<[Symbol |-> "A", Category |-> Some("X"), Score |-> Some(9)],
      [Symbol |-> "B", Category |-> Some("X"), Score |-> Some(5)],
      [Symbol |-> "C", Category |-> Some("X"), Score |-> Some(1)]>>

\* the row of the category table for a symbol has a percentile within 0.1 of
\* tenths/10 and the given tier
ScenarioRow(sym, tenths, tier) ==
    \E i \in 1..Len(category_df) :
        /\ category_df[i].Symbol = sym
        /\ IsNumeric(category_df[i].Percentile)
        /\ 10 * category_df[i].Percentile[1] >= (tenths - 1) * category_df[i].Percentile[2]
        /\ 10 * category_df[i].Percentile[1] <= (tenths + 1) * category_df[i].Percentile[2]
        /\ category_df[i].Status = tier

\* C2 as stated: for the universe A 0.9, B 0.5, C 0.1 in category X, A gets
\* percentile about 16.7 and Elite, B gets 50 and Review, C gets 100 and Replace
C2_ScenarioAsStated ==
    (run = "ok" /\ Input = ScenarioUniverse) =>
        /\ ScenarioRow("A", 167, "Elite")
        /\ ScenarioRow("B", 500, "Review")
        /\ ScenarioRow("C", 1000, "Replace")

\* C2 amended: for that universe A gets percentile about 33.3 and Review,
\* B gets about 66.7 and Replace, C gets 100 and Replace
C2_ScenarioAmended ==
    (run = "ok" /\ Input = ScenarioUniverse) =>
        /\ ScenarioRow("A", 333, "Review")
        /\ ScenarioRow("B", 667, "Replace")
        /\ ScenarioRow("C", 1000, "Replace")

C2_Witness == run = "ok" /\ Input = ScenarioUniverse /\ Len(category_df) = 3

\* C4: two funds of the same category with equal numeric scores have the
\* same percentile
C4_TiesShareAPercentile ==
    \A i, j \in 1..Len(combined_df) :
        (/\ combined_df[i].Category = combined_df[j].Category
         /\ IsNumeric(combined_df[i].Score)
         /\ combined_df[i].Score = combined_df[j].Score)
        => combined_df[i].Percentile = combined_df[j].Percentile

\* two tied funds that are not adjacent in the input
C4_Witness ==
    /\ run = "ok"
    /\ \E i, j \in 1..Len(combined_df) :
          /\ j > i + 1
          /\ combined_df[i].Category = combined_df[j].Category
          /\ combined_df[i].Category = combined_df[i + 1].Category
          /\ IsNumeric(combined_df[i].Score)
          /\ combined_df[i].Score = combined_df[j].Score
          /\ combined_df[i + 1].Score # combined_df[i].Score

Orderings(n) == {f \in [1..n -> 1..n] : \A a, b \in 1..n : f[a] = f[b] => a = b}

PercentileMap(df) == {<<df[i].Symbol, df[i].Percentile>> : i \in 1..Len(df)}

\* C5: the rows of the upload (one file per fund) in any other order, and
\* split into two files instead, get the same mapping from symbol to
\* percentile
C5_RankingIgnoresRowOrder ==
    run = "ok" =>
        \A f \in Orderings(Len(Input)) :
            LET rows == [k \in 1..Len(Input) |-> Input[f[k]]]
                cut == Len(rows) \div 2
                files == <<SubSeq(rows, 1, cut), SubSeq(rows, cut + 1, Len(rows))>>
            IN /\ ~ScoringFails(Concat(files))
               /\ PercentileMap(GroupByApply(Concat(files))) = PercentileMap(combined_df)

\* an upload with tied funds around a third fund of their category, where
\* the order of the rows could matter
C5_Witness ==
    /\ run = "ok"
    /\ Len(uploaded_files) = 3
    /\ \E i, j \in 1..Len(combined_df) :
          /\ i # j
          /\ combined_df[i].Category = combined_df[j].Category
          /\ IsNumeric(combined_df[i].Score)
          /\ combined_df[i].Score = combined_df[j].Score

\* C6 as stated: every fund of the scored table has a percentile p, 0 < p <= 100
C6_PercentileInRange ==
    \A i \in 1..Len(combined_df) :
        /\ IsNumeric(combined_df[i].Percentile)
        /\ Gt(combined_df[i].Percentile, 0)
        /\ Leq(combined_df[i].Percentile, 100)

Tiers == {"Elite", "Review", "Replace"}

\* C12 as stated: a fund whose score is missing is left out of the ranking
\* and gets no tier (it is not labelled Replace), while the funds with a
\* score are ranked all the same
C12_UnscoredFundGetsNoTier ==
    run = "ok" =>
        /\ \A i \in 1..Len(combined_df) :
              IsNaN(combined_df[i].Score) <=> IsNaN(combined_df[i].Percentile)
        /\ \A i \in 1..Len(category_df) :
              IsNaN(category_df[i].Score) => category_df[i].Status \notin Tiers

\* C13 as stated: every uploaded fund is in the scored table, and the funds
\* without a category are ranked among themselves: each has the percentile
\* of its average descending rank among the scored funds without a category
C13_MissingCategoryIsAPartition ==
    run = "ok" =>
        \A j \in 1..Len(Input) :
            LET f == Input[j]
                peers == {k \in 1..Len(Input) :
                            IsNaN(Input[k].Category) /\ IsNumeric(Input[k].Score)}
                N == Cardinality(peers)
                g == Cardinality({k \in peers : Input[k].Score[1] > f.Score[1]})
                t == Cardinality({k \in peers : Input[k].Score[1] = f.Score[1]})
            IN \E i \in 1..Len(combined_df) :
                   /\ combined_df[i].Symbol = f.Symbol
                   /\ (IsNaN(f.Category) /\ IsNumeric(f.Score)) =>
                         /\ IsNumeric(combined_df[i].Percentile)
                         /\ combined_df[i].Percentile[1] * 2 * N
                              = 100 * (2 * g + t + 1) * combined_df[i].Percentile[2]

\* the scored funds of the category of row i of the scored table
ScoredPeers(i) ==
    {k \in 1..Len(combined_df) :
        combined_df[k].Category = combined_df[i].Category /\ IsNumeric(combined_df[k].Score)}

\* C17: the only scored fund of its category has percentile 100, and its
\* tier under the thresholds elite 25, review 50, replace 100 is Replace
C17_SingletonCategory ==
    run = "ok" =>
        /\ \A i \in 1..Len(combined_df) :
              ScoredPeers(i) = {i} => combined_df[i].Percentile = <<100, 1>>
        /\ \A i \in 1..Len(category_df) :
              (/\ IsNumeric(category_df[i].Score)
               /\ \A j \in 1..Len(category_df) :
                     IsNumeric(category_df[j].Score) => j = i)
              => (category_df[i].Percentile = <<100, 1>> /\ category_df[i].Status = "Replace")

\* the selected category has one scored fund, next to a fund without a
\* score and to another category
C17_Witness ==
    /\ run = "ok"
    /\ Len(category_df) = 2
    /\ Len(combined_df) = 3
    /\ \E i, j \in 1..2 :
          /\ IsNumeric(category_df[i].Score)
          /\ IsNaN(category_df[j].Score)
          /\ category_df[i].Status = "Replace"

----------------------------------------------------------------------------
(* Quarter-over-quarter runs: a current and a previous universe, uploaded   *)
(* row by row; symbols may repeat and may be on one side only.             *)

DriftSymbols == {"A", "B"}

DriftCells ==
    {[Category |-> Some("X"), Score |-> Some(1)],
     [Category |-> Some("X"), Score |-> Some(9)],
     [Category |-> NaN, Score |-> Some(1)]}

DriftRows == {FundRow(sym, cell) : sym \in DriftSymbols, cell \in DriftCells}

UploadCurrent ==
    /\ RowCount(uploaded_files) < MaxDriftRows
    /\ \E r \in DriftRows : UploadFile(<<r>>)

UploadPreviousQuarter ==
    /\ RowCount(previous_files) < MaxDriftRows
    /\ \E r \in DriftRows : UploadPrevious(<<r>>)

NextDrift == UploadCurrent \/ UploadPreviousQuarter

SpecDrift == Init /\ [][NextDrift]_vars

----------------------------------------------------------------------------
(* Quarter-over-quarter runs on the same funds: the k-th fund of either     *)
(* universe is SymbolOrder[k], all in one category.                         *)

QuarterCells == {[Category |-> Some("X"), Score |-> Some(s)] : s \in ScoreValues}

UploadCurrentFund ==
    /\ RowCount(uploaded_files) < MaxRows
    /\ \E cell \in QuarterCells : UploadFile(NewExport(<<cell>>))

UploadPreviousFund ==
    /\ RowCount(previous_files) < MaxRows
    /\ \E cell \in QuarterCells :
          UploadPrevious(<<FundRow(SymbolOrder[RowCount(previous_files) + 1], cell)>>)

NextQuarters == UploadCurrentFund \/ UploadPreviousFund

SpecQuarters == Init /\ [][NextQuarters]_vars

\* C11: the flagged drift records are shown with their deltas in
\* non-increasing order: a record listed before another has a delta greater
\* than or equal to the other's
C11_AlertsByDeltaDescending ==
    \A i, j \in 1..Len(alerts) :
        i < j =>
            /\ ~IsNaN(alerts[i].Percentile_Change)
            /\ ~IsNaN(alerts[j].Percentile_Change)
            /\ FracLeq(alerts[j].Percentile_Change, alerts[i].Percentile_Change)

\* two flagged funds with different deltas, the smaller delta first in the
\* merged table
C11_Witness ==
    /\ Len(alerts) >= 2
    /\ \E i, j \in 1..Len(comparison) :
          /\ i < j
          /\ comparison[i].Alert = "Watchlist"
          /\ comparison[j].Alert = "Deteriorated"

----------------------------------------------------------------------------
(* Portfolio runs: a universe in one category, a portfolio file put in,    *)
(* replaced or taken out, and the report button.                           *)

PortfolioCells ==
    {[Category |-> Some("X"), Score |-> Some(s)] : s \in ScoreValues}
    \cup {[Category |-> Some("X"), Score |-> NaN]}

\* holding columns: none, in and out of the universe, repeated, with an
\* empty cell, or no rows at all; "Z" is a ticker no universe has
PortfolioFiles ==
    {PortfolioCsv(<<>>),
     PortfolioCsv(<<Some("A")>>),
     PortfolioCsv(<<Some("C"), Some("B"), Some("A")>>),
     PortfolioCsv(<<Some("B"), Some("Z")>>),
     PortfolioCsv(<<NaN, Some("Z"), Some("Z")>>),
     Unreadable}

UploadScreen ==
    /\ RowCount(uploaded_files) < MaxRows
    /\ \E cell \in PortfolioCells : UploadFile(NewExport(<<cell>>))

UploadModel == \E pfile \in PortfolioFiles : pfile # portfolio_file /\ UploadPortfolio(pfile)

NextPortfolio == UploadScreen \/ UploadModel \/ RemovePortfolio \/ GenerateReport

SpecPortfolio == Init /\ [][NextPortfolio]_vars

----------------------------------------------------------------------------
(* Properties of portfolio runs (SpecPortfolio) *)

\* the holdings of the portfolio file supplied in the last rerun
SuppliedHoldings ==
    IF portfolio_file.kind = "csv" THEN current_tickers(portfolio_file) ELSE {}

\* the holdings the report of the last rerun was generated with
ReportHoldings ==
    IF report.portfolio_df = None THEN {} ELSE current_tickers(report.portfolio_df)

\* C14 as stated: the holdings used by a rerun's holdings comparison and by
\* its compliance report are those of the portfolio file supplied in that
\* rerun; with no file supplied, none are used
C14_HoldingsOfThisRerunOnly ==
    /\ holdings_metric.kind = "metric" =>
            holdings_metric.total = Cardinality(SuppliedHoldings)
    /\ \A i \in 1..Len(holdings_status) : holdings_status[i].Symbol \in SuppliedHoldings
    /\ report.generated =>
          /\ ReportHoldings = SuppliedHoldings
          /\ \A i \in 1..Len(report.holdings) : report.holdings[i].Ticker \in SuppliedHoldings
          /\ \A i \in 1..Len(report.top) :
                report.top[i].InPortfolio => report.top[i].Ticker \in SuppliedHoldings

\* the rows of the scored table whose symbol is a supplied holding
HeldRows == {i \in 1..Len(combined_df) : combined_df[i].Symbol \in SuppliedHoldings}

\* C15: the holdings table has exactly the scored funds whose symbol is in
\* the holdings, each with its percentile, in non-decreasing order of
\* percentile (funds without a percentile after all others)
C15_MatchedHoldingsBestFirst ==
    holdings_metric.kind = "metric" =>
        /\ Len(holdings_status) = Cardinality(HeldRows)
        /\ \A i \in HeldRows :
              \E k \in 1..Len(holdings_status) :
                  /\ holdings_status[k].Symbol = combined_df[i].Symbol
                  /\ holdings_status[k].Percentile = combined_df[i].Percentile
        /\ \A k \in 1..Len(holdings_status) : holdings_status[k].Symbol \in SuppliedHoldings
        /\ \A k, m \in 1..Len(holdings_status) :
              k < m =>
                  IF IsNaN(holdings_status[k].Percentile)
                  THEN IsNaN(holdings_status[m].Percentile)
                  ELSE \/ IsNaN(holdings_status[m].Percentile)
                       \/ FracLeq(holdings_status[k].Percentile, holdings_status[m].Percentile)

\* three holdings matched, the universe listing a worse fund before a better one
C15_Witness ==
    /\ holdings_metric.kind = "metric"
    /\ Len(holdings_status) = 3
    /\ \E i, j \in HeldRows :
          /\ i < j
          /\ IsNumeric(combined_df[i].Percentile) /\ IsNumeric(combined_df[j].Percentile)
          /\ ~FracLeq(combined_df[i].Percentile, combined_df[j].Percentile)

\* C16 as stated: the portfolio section reports the coverage ratio
\* |holdings in the universe| / |holdings|, and for an empty holdings set
\* the ratio 1.0 with nothing matched
C16_CoverageRatio ==
    holdings_metric.kind = "metric" =>
        LET inUniverse == SuppliedHoldings \cap screening_tickers(combined_df)
        IN /\ holdings_metric.total # 0
           /\ IF SuppliedHoldings = {}
              THEN holdings_metric.matches = holdings_metric.total /\ holdings_status = <<>>
              ELSE holdings_metric.matches * Cardinality(SuppliedHoldings)
                     = Cardinality(inUniverse) * holdings_metric.total

\* C19 as stated: the report's action for a holding follows the boundaries
\* of the configured thresholds, as the dashboard's tier does: two holdings
\* get the same action exactly when they are in the same configured tier
C19_ReportFollowsConfiguredTiers ==
    report.generated =>
        \A i, j \in 1..Len(report.holdings) :
            (report.holdings[i].Status = report.holdings[j].Status)
                <=> (report.holdings[i].Action = report.holdings[j].Action)

----------------------------------------------------------------------------
(* The classification and comparison stages applied to scored tables given *)
(* directly: one scored fund per table, its percentile any point of a grid *)
(* over 0..100, or NaN.                                                    *)

PctGrid == 20

GridPercentiles == {Frac(100 * k, PctGrid) : k \in 0..PctGrid} \cup {NaN}

ScoredRow(sym, p) ==
    [Symbol |-> sym, Category |-> Some("X"), Score |-> Some(5), Percentile |-> p]

InitFn ==
    /\ uploaded_files = <<>>
    /\ previous_files = <<>>
    /\ selected_category = "X"
    /\ \E p \in GridPercentiles : combined_df = <<ScoredRow("A", p)>>
    /\ \E sym \in DriftSymbols, p \in GridPercentiles : prev_combined = <<ScoredRow(sym, p)>>
    /\ comparison = <<>>
    /\ alerts = <<>>
    /\ flagged_msg = NoMessage
    /\ category_df = <<>>
    /\ run = "ok"
    /\ thresholds = ShippedThresholds
    /\ metric_weights = METRIC_WEIGHTS
    /\ portfolio_file = None
    /\ session_state = None
    /\ holdings_metric = NoMetric
    /\ holdings_status = <<>>
    /\ report = NoReport

\* app.py 236-245; a KeyError of the Status lambda ends the run
Classify ==
    /\ category_df = <<>>
    /\ run = "ok"
    /\ LET raised == StatusRaises(SelectSeq(combined_df,
                                    LAMBDA r : r.Category = Some(selected_category)))
       IN /\ run' = IF raised THEN "error" ELSE "ok"
          /\ category_df' = IF raised THEN <<>>
                            ELSE CategoryAnalysis(combined_df, selected_category)
    /\ UNCHANGED <<uploaded_files, previous_files, selected_category, combined_df,
                   prev_combined, comparison, alerts, flagged_msg,
                   thresholds, metric_weights, portfolio_file, session_state,
                   holdings_metric, holdings_status, report>>

\* app.py 189-224
Compare ==
    /\ flagged_msg = NoMessage
    /\ comparison' = Comparison(combined_df, prev_combined)
    /\ alerts' = SortByChangeDesc(Flagged(comparison'))
    /\ flagged_msg' = FlaggedMessage(Flagged(comparison'))
    /\ UNCHANGED <<uploaded_files, previous_files, selected_category, combined_df,
                   prev_combined, category_df, run,
                   thresholds, metric_weights, portfolio_file, session_state,
                   holdings_metric, holdings_status, report>>

NextFn == Classify \/ Compare

SpecFn == InitFn /\ [][NextFn]_vars

----------------------------------------------------------------------------
(* The classification stage under other contents of config.py: the dict    *)
(* PERCENTILE_THRESHOLDS is whatever the module defines when it is loaded. *)

ThresholdConfigs ==
    {ShippedThresholds,
     \* the four tiers the report's methodology page lists
     ThresholdDict(<<"elite", "qualified", "watchlist", "review">>,
                   [elite |-> 25, qualified |-> 37, watchlist |-> 74, review |-> 100]),
     \* the three tiers of the methodology tab
     ThresholdDict(<<"leadership", "core", "evaluation">>,
                   [leadership |-> 25, core |-> 50, evaluation |-> 100]),
     ThresholdDict(<<"elite", "replace">>, [elite |-> 50, replace |-> 100]),
     \* bounds out of order
     ThresholdDict(TierOrder, [elite |-> 50, review |-> 25, replace |-> 100]),
     \* bounds that stop short of 100
     ThresholdDict(TierOrder, [elite |-> 25, review |-> 50, replace |-> 90])}

InitConfig ==
    /\ uploaded_files = <<>>
    /\ previous_files = <<>>
    /\ selected_category = "X"
    /\ \E p \in GridPercentiles : combined_df = <<ScoredRow("A", p)>>
    /\ prev_combined = <<>>
    /\ comparison = <<>>
    /\ alerts = <<>>
    /\ flagged_msg = NoMessage
    /\ category_df = <<>>
    /\ run = "ok"
    /\ thresholds \in ThresholdConfigs
    /\ metric_weights = METRIC_WEIGHTS
    /\ portfolio_file = None
    /\ session_state = None
    /\ holdings_metric = NoMetric
    /\ holdings_status = <<>>
    /\ report = NoReport

NextConfig == Classify

SpecConfig == InitConfig /\ [][NextConfig]_vars

\* the label of each tier
TierLabel ==
    [elite |-> "Elite", review |-> "Review", replace |-> "Replace",
     qualified |-> "Qualified", watchlist |-> "Watchlist",
     leadership |-> "Leadership", core |-> "Core", evaluation |-> "Evaluation"]

\* strictly increasing upper bounds, the last one reaching 100
ValidThresholds(dict) ==
    /\ dict.order # <<>>
    /\ \A i \in 1..(Len(dict.order) - 1) :
          dict.bound[dict.order[i]] < dict.bound[dict.order[i + 1]]
    /\ dict.bound[dict.order[Len(dict.order)]] >= 100

\* the classification ran to its end or raised
Classified == category_df # <<>> \/ run = "error"

\* C18 as stated: under thresholds that are not strictly increasing or do
\* not reach 100 the run stops with a configuration error and no fund is
\* classified
C18_InvalidThresholdsRejected ==
    (~ValidThresholds(thresholds) /\ Classified) =>
        (run = "error" /\ category_df = <<>>)

\* C20 as stated: under any valid thresholds percentile 0 gets the first
\* tier and percentile 100 gets the last tier
C20_ExtremesGetFirstAndLastTier ==
    (ValidThresholds(thresholds) /\ Classified) =>
        LET p == combined_df[1].Percentile
            first == thresholds.order[1]
            last == thresholds.order[Len(thresholds.order)]
        IN /\ p = <<0, 1>> =>
                (category_df # <<>> /\ category_df[1].Status = TierLabel[first])
           /\ p = <<100, 1>> =>
                (category_df # <<>> /\ category_df[1].Status = TierLabel[last])

----------------------------------------------------------------------------
(* Properties of the classification and comparison stages (SpecFn) *)


\* n/d <= k, n/d > k on a fraction's parts
AtMost(p, k) == p[1] <= k * p[2]
Above(p, k) == p[1] > k * p[2]

\* C3: a numeric percentile gets the first tier, in configured order, whose
\* upper bound is >= the percentile: Elite iff p <= 25, Review iff
\* 25 < p <= 50, Replace iff 50 < p <= 100
C3_FirstTierWhoseBoundCovers ==
    \A i \in 1..Len(category_df) :
        LET p == category_df[i].Percentile
            tier == category_df[i].Status
            covering == {k \in 1..Len(TierOrder) : AtMost(p, PERCENTILE_THRESHOLDS[TierOrder[k]])}
            first == CHOOSE k \in covering : \A m \in covering : k <= m
        IN IsNumeric(p) =>
            /\ covering # {}
            /\ tier = TierLabel[TierOrder[first]]
            /\ (tier = "Elite") <=> AtMost(p, 25)
            /\ (tier = "Review") <=> (Above(p, 25) /\ AtMost(p, 50))
            /\ (tier = "Replace") <=> (Above(p, 50) /\ AtMost(p, 100))

\* a fund exactly on the review bound, classified Review
C3_Witness ==
    \E i \in 1..Len(category_df) :
        category_df[i].Percentile = <<50, 1>> /\ category_df[i].Status = "Review"

Compared == flagged_msg.kind \in {"warning", "success"}

\* C7: a drift record pairs the current and the previous percentile of one
\* symbol, its delta is current minus previous (positive exactly when the
\* current percentile is the larger one), and for current 80 and previous 50
\* the delta is +30 and the alert is the severe level
C7_DeltaIsCurrentMinusPrevious ==
    Compared =>
        LET cur == combined_df[1]
            prev == prev_combined[1]
        IN /\ (comparison # <<>>) <=> (cur.Symbol = prev.Symbol)
           /\ \A i \in 1..Len(comparison) :
                LET rec == comparison[i]
                    c == rec.Percentile_current
                    q == rec.Percentile_previous
                    d == rec.Percentile_Change
                IN /\ rec.Symbol = cur.Symbol /\ c = cur.Percentile /\ q = prev.Percentile
                   /\ (IsNumeric(c) /\ IsNumeric(q)) =>
                        /\ IsNumeric(d)
                        /\ d[1] * c[2] * q[2] = (c[1] * q[2] - q[1] * c[2]) * d[2]
                        /\ (d[1] > 0) <=> (c[1] * q[2] > q[1] * c[2])
                   /\ (c = <<80, 1>> /\ q = <<50, 1>>) =>
                        (d = <<30, 1>> /\ rec.Alert = "Deteriorated")

\* the record of a fund that went from percentile 50 to percentile 80
C7_Witness ==
    /\ Compared
    /\ \E i \in 1..Len(comparison) :
          /\ comparison[i].Percentile_current = <<80, 1>>
          /\ comparison[i].Percentile_previous = <<50, 1>>

AlertLevels == {"Deteriorated", "Watchlist", "Minor Change", "Stable/Improved"}

\* C8: a defined delta gets exactly one level: severe iff delta > 25,
\* elevated iff 15 < delta <= 25, minor iff 5 < delta <= 15, stable iff
\* delta <= 5; a delta of exactly 25, 15 or 5 gets the level below the cut
C8_AlertBands ==
    \A i \in 1..Len(comparison) :
        LET d == comparison[i].Percentile_Change
            a == comparison[i].Alert
        IN IsNumeric(d) =>
            /\ a \in AlertLevels
            /\ (a = "Deteriorated") <=> Above(d, 25)
            /\ (a = "Watchlist") <=> (Above(d, 15) /\ AtMost(d, 25))
            /\ (a = "Minor Change") <=> (Above(d, 5) /\ AtMost(d, 15))
            /\ (a = "Stable/Improved") <=> AtMost(d, 5)
            /\ (d = <<25, 1>>) => a = "Watchlist"
            /\ (d = <<15, 1>>) => a = "Minor Change"
            /\ (d = <<5, 1>>) => a = "Stable/Improved"

\* a delta exactly on the severe cut point
C8_Witness ==
    \E i \in 1..Len(comparison) :
        comparison[i].Percentile_Change = <<25, 1>> /\ comparison[i].Alert = "Watchlist"

RowsOf(df) == {df[i] : i \in 1..Len(df)}

NeedsAttention(rec) ==
    IsNumeric(rec.Percentile_Change) /\ Above(rec.Percentile_Change, 15)

\* C23: a joined fund whose delta is undefined, its current or its previous
\* percentile being missing, is labelled Stable/Improved and is not among
\* the flagged funds; a joined fund is among the flagged funds exactly when
\* its delta is defined and greater than 15, and the message counts exactly
\* those funds.
C23_UndefinedDeltaIsNeverFlagged ==
    Compared =>
        /\ \A i \in 1..Len(comparison) :
              LET rec == comparison[i]
              IN /\ (IsNaN(rec.Percentile_current) \/ IsNaN(rec.Percentile_previous)) =>
                      /\ IsNaN(rec.Percentile_Change)
                      /\ rec.Alert = "Stable/Improved"
                      /\ rec \notin RowsOf(alerts)
                 /\ (rec \in RowsOf(alerts)) <=> NeedsAttention(rec)
        /\ RowsOf(alerts) \subseteq RowsOf(comparison)
        /\ Len(alerts) = Cardinality({i \in 1..Len(comparison) : NeedsAttention(comparison[i])})
        /\ (flagged_msg.kind = "warning") <=> (alerts # <<>>)
        /\ flagged_msg.kind = "warning" => flagged_msg.n = Len(alerts)

\* a joined fund scored in the previous quarter only, so that its delta is
\* undefined
C23_Witness ==
    /\ Compared
    /\ \E i \in 1..Len(comparison) :
          /\ IsNaN(comparison[i].Percentile_current)
          /\ IsNumeric(comparison[i].Percentile_previous)
          /\ IsNaN(comparison[i].Percentile_Change)

----------------------------------------------------------------------------
(* Properties of quarter-over-quarter runs (SpecDrift) *)

SymbolsOf(df) == {df[i].Symbol : i \in 1..Len(df)}

UniqueSymbols(df) == \A i, j \in 1..Len(df) : df[i].Symbol = df[j].Symbol => i = j

RecordsOf(sym) == {i \in 1..Len(comparison) : comparison[i].Symbol = sym}

\* C9: when no symbol repeats within the current or within the previous
\* scored universe, the drift output has exactly one record for each symbol
\* of both scored universes and none for any other symbol
C9_InnerJoinOnSymbol ==
    (run = "ok" /\ UniqueSymbols(combined_df) /\ UniqueSymbols(prev_combined)) =>
        \A sym \in Symbols :
            Cardinality(RecordsOf(sym)) =
                IF sym \in SymbolsOf(combined_df) \cap SymbolsOf(prev_combined) THEN 1 ELSE 0

\* one symbol in both universes and one in the current universe only
C9_Witness ==
    /\ run = "ok" /\ Compared
    /\ UniqueSymbols(combined_df) /\ UniqueSymbols(prev_combined)
    /\ SymbolsOf(combined_df) \cap SymbolsOf(prev_combined) # {}
    /\ SymbolsOf(combined_df) \ SymbolsOf(prev_combined) # {}

CurrentOnlyCount == Cardinality(SymbolsOf(combined_df) \ SymbolsOf(prev_combined))
PreviousOnlyCount == Cardinality(SymbolsOf(prev_combined) \ SymbolsOf(combined_df))

\* the numbers the comparison section shows
ReportedCounts == IF flagged_msg.kind = "warning" THEN {flagged_msg.n} ELSE {}

\* C10 as stated: a comparison that leaves symbols out reports the number of
\* current-only symbols and the number of previous-only symbols
C10_ExclusionCountsReported ==
    (run = "ok" /\ Compared /\ CurrentOnlyCount + PreviousOnlyCount > 0) =>
        /\ CurrentOnlyCount \in ReportedCounts
        /\ PreviousOnlyCount \in ReportedCounts

----------------------------------------------------------------------------
(* The metric weights: config.py 7-22, app.py 488-562, report_generator.py 235-295 *)

RECURSIVE TotalWeight(_)
TotalWeight(weights) ==
    IF weights = <<>> THEN 0 ELSE Head(weights).Weight + TotalWeight(Tail(weights))

MetricNames(weights) == {weights[i].Metric : i \in 1..Len(weights)}

\* C21: the loaded weight configuration names exactly eleven metrics, no name
\* twice, and their weights add up to 100 whole percent (1.0).
C21_ElevenWeightsSumToOne ==
    /\ Len(metric_weights) = 11
    /\ Cardinality(MetricNames(metric_weights)) = 11
    /\ \A i \in 1..Len(metric_weights) : metric_weights[i].Weight > 0
    /\ TotalWeight(metric_weights) = 100

\* a screening run made with the shipped weight configuration loaded
C21_Witness ==
    /\ run = "ok"
    /\ Len(combined_df) = MaxRows
    /\ metric_weights = METRIC_WEIGHTS
    /\ MetricNames(metric_weights) = EnvironmentalMetrics \cup QualityGovernanceMetrics

\* the number a displayed weight such as "15%" stands for
PercentOf(text) == CHOOSE n \in 0..100 : ToString(n) \o "%" = text

ShownWeight(table) ==
    TotalWeight([i \in 1..Len(table.rows) |-> [Weight |-> PercentOf(table.rows[i].Weight)]])

ConfiguredWeight(weights, names) ==
    TotalWeight(SelectSeq(weights, LAMBDA w : w.Metric \in names))

\* C22: the environmental weights add up to 70 and the quality and governance
\* weights to 30, in the loaded configuration, in the methodology tab's two
\* tables and in the two weight lists of a generated report, whenever a
\* report has been generated.
C22_SeventyThirtySplit ==
    report.generated =>
        /\ ConfiguredWeight(metric_weights, EnvironmentalMetrics) = 70
        /\ ConfiguredWeight(metric_weights, QualityGovernanceMetrics) = 30
        /\ ShownWeight(env_metrics) = 70
        /\ ShownWeight(qual_metrics) = 30
        /\ ShownWeight(report.metrics) = 70
        /\ ShownWeight(report.quality_metrics) = 30

====
